---- MODULE Spec2Model ----
(***************************************************************************)
(* Two-phase (Kociemba) Rubik's cube solver: cubie model, the 18 face      *)
(* turns, the coordinates, the move and pruning tables and the nested      *)
(* IDA* search of Solver::solve.                                           *)
(*                                                                         *)
(* Arrays are functions over 0..n-1, as in the source, because the values  *)
(* of cp and ep are themselves used as array indices.                      *)
(***************************************************************************)
EXTENDS Integers, Sequences, FiniteSets, TLC

VARIABLES
    cube,           \* the CubieCube being scrambled / handed to solve
    hist,           \* scramble history (CubieCube::scramble's `history`)
    pc,             \* position of the program
    p1_bound,       \* Solver::solve loop variable
    best_length,    \* Solver::solve local
    best_solution,  \* Solver::solve local, Option<Vec<Turn>>
    path,           \* the Vec<Turn> of phase1_search
    p2_path,        \* the clone handed to phase2_search
    stack,          \* activation records of phase1_search / phase2_search
    ret,            \* value returned by the call that just ended
    result,         \* value returned by solve
    tables,         \* Solver::tables, as far as the model expands them
    table,          \* the NibbleArray under construction (generate_pruning_table's `table`)
    turns,          \* number of face turns applied (cubie walk)
    opa, opb, opc,  \* operands of a cubie-algebra operation
    opr,            \* outcome of the last cubie-algebra operation
    cin,            \* input of a coordinate round trip
    cout            \* outcome of a coordinate round trip

solverVars == <<p1_bound, best_length, best_solution, path, p2_path, stack, ret, result,
               tables, table>>
algVars    == <<opa, opb, opc, opr>>
coordVars  == <<cin, cout>>
vars == <<cube, hist, pc, p1_bound, best_length, best_solution, path, p2_path,
          stack, ret, result, tables, table, turns, opa, opb, opc, opr, cin, cout>>

----------------------------------------------------------------------------
(* Bounds of the model *)

\* longest random scramble handed to the solver
MaxScramble == 2
\* longest walk of face turns from SOLVED in the cubie walk
MaxTurns == 4
\* number of face turns used to build the first operand of the cubie algebra
AlgTurns == 1
\* largest entry of the pruning-table cells that are measured against the move tables
CellDepth == 1
\* number of moves within which the true distance of a cube to its goal is searched
NearDepth == 1
\* depth up to which the breadth-first pruning tables are expanded exactly
PruneDepth == 2
\* number of face turns used to build the cubie states fed to the coordinates
CoordTurns == 2

----------------------------------------------------------------------------
(* Helpers *)

\* a Rust array literal, indexed from 0
Arr(s) == [i \in 0..(Len(s) - 1) |-> s[i + 1]]

Zero8  == [i \in 0..7 |-> 0]
Zero12 == [i \in 0..11 |-> 0]

----------------------------------------------------------------------------
(* cubie_cube.rs: constants *)

C_NK == Arr(<<
    Arr(<<1, 0, 0, 0, 0>>),
    Arr(<<1, 1, 0, 0, 0>>),
    Arr(<<1, 2, 1, 0, 0>>),
    Arr(<<1, 3, 3, 1, 0>>),
    Arr(<<1, 4, 6, 4, 1>>),
    Arr(<<1, 5, 10, 10, 5>>),
    Arr(<<1, 6, 15, 20, 15>>),
    Arr(<<1, 7, 21, 35, 35>>),
    Arr(<<1, 8, 28, 56, 70>>),
    Arr(<<1, 9, 36, 84, 126>>),
    Arr(<<1, 10, 45, 120, 210>>),
    Arr(<<1, 11, 55, 165, 330>> ) >>)

FACTORIALS_7 == Arr(<<1, 1, 2, 6, 24, 120, 720, 5040>>)

SOLVED == [cp |-> Arr(<<0, 1, 2, 3, 4, 5, 6, 7>>),
           co |-> Zero8,
           ep |-> Arr(<<0, 1, 2, 3, 4, 5, 6, 7, 8, 9, 10, 11>>),
           eo |-> Zero12]

GenU == [cp |-> Arr(<<3, 0, 1, 2, 4, 5, 6, 7>>),
         co |-> Zero8,
         ep |-> Arr(<<3, 0, 1, 2, 4, 5, 6, 7, 8, 9, 10, 11>>),
         eo |-> Zero12]

GenR == [cp |-> Arr(<<4, 1, 2, 0, 7, 5, 6, 3>>),
         co |-> Arr(<<2, 0, 0, 1, 1, 0, 0, 2>>),
         ep |-> Arr(<<8, 1, 2, 3, 11, 5, 6, 7, 4, 9, 10, 0>>),
         eo |-> Zero12]

GenF == [cp |-> Arr(<<1, 5, 2, 3, 0, 4, 6, 7>>),
         co |-> Arr(<<1, 2, 0, 0, 2, 1, 0, 0>>),
         ep |-> Arr(<<0, 9, 2, 3, 4, 8, 6, 7, 1, 5, 10, 11>>),
         eo |-> Arr(<<0, 1, 0, 0, 0, 1, 0, 0, 1, 1, 0, 0>>)]

GenD == [cp |-> Arr(<<0, 1, 2, 3, 5, 6, 7, 4>>),
         co |-> Zero8,
         ep |-> Arr(<<0, 1, 2, 3, 5, 6, 7, 4, 8, 9, 10, 11>>),
         eo |-> Zero12]

GenL == [cp |-> Arr(<<0, 2, 6, 3, 4, 1, 5, 7>>),
         co |-> Arr(<<0, 1, 2, 0, 0, 2, 1, 0>>),
         ep |-> Arr(<<0, 1, 10, 3, 4, 5, 9, 7, 8, 2, 6, 11>>),
         eo |-> Zero12]

GenB == [cp |-> Arr(<<0, 1, 3, 7, 4, 5, 2, 6>>),
         co |-> Arr(<<0, 0, 1, 2, 0, 0, 2, 1>>),
         ep |-> Arr(<<0, 1, 2, 11, 4, 5, 6, 10, 8, 9, 3, 7>>),
         eo |-> Arr(<<0, 0, 0, 1, 0, 0, 0, 1, 0, 0, 1, 1>>)]

----------------------------------------------------------------------------
(* cubie_cube.rs: multiply and inverse *)

\* multiply reducing the corner orientations modulo 2, like the edges
multiply_WrongModulus(self, other) ==
    [cp |-> [i \in 0..7  |-> self.cp[other.cp[i]]],
     co |-> [i \in 0..7  |-> (self.co[other.cp[i]] + other.co[i]) % 2],
     ep |-> [i \in 0..11 |-> self.ep[other.ep[i]]],
     eo |-> [i \in 0..11 |-> (self.eo[other.ep[i]] + other.eo[i]) % 2]]

\* multiply with the permutations composed in the opposite order
multiply_Swapped(self, other) ==
    [cp |-> [i \in 0..7  |-> other.cp[self.cp[i]]],
     co |-> [i \in 0..7  |-> (self.co[other.cp[i]] + other.co[i]) % 3],
     ep |-> [i \in 0..11 |-> other.ep[self.ep[i]]],
     eo |-> [i \in 0..11 |-> (self.eo[other.ep[i]] + other.eo[i]) % 2]]

\* CubieCube::multiply: "self * other", every slot i of the result is written
multiply(self, other) ==
    [cp |-> [i \in 0..7  |-> self.cp[other.cp[i]]],
     co |-> [i \in 0..7  |-> (self.co[other.cp[i]] + other.co[i]) % 3],
     ep |-> [i \in 0..11 |-> self.ep[other.ep[i]]],
     eo |-> [i \in 0..11 |-> (self.eo[other.ep[i]] + other.eo[i]) % 2]]

RECURSIVE inverse_corners(_, _, _)
\* the loop `for i in 0..8` of inverse, writing result.cp[item] and result.co[item]
inverse_corners(self, i, res) ==
    IF i = 8 THEN res
    ELSE inverse_corners(self, i + 1,
            [res EXCEPT !.cp[self.cp[i]] = i,
                        !.co[self.cp[i]] = (3 - self.co[i]) % 3])

RECURSIVE inverse_edges(_, _, _)
\* the loop `for i in 0..12` of inverse
inverse_edges(self, i, res) ==
    IF i = 12 THEN res
    ELSE inverse_edges(self, i + 1,
            [res EXCEPT !.ep[self.ep[i]] = i,
                        !.eo[self.ep[i]] = (2 - self.eo[i]) % 2])

\* inverse that copies the orientations instead of negating them
inverse_KeepTwist(self) ==
    [inverse_edges(self, 0, inverse_corners(self, 0, SOLVED))
        EXCEPT !.co = [j \in 0..7 |-> self.co[CHOOSE i \in 0..7 : self.cp[i] = j]]]

\* CubieCube::inverse
inverse(self) == inverse_edges(self, 0, inverse_corners(self, 0, SOLVED))

----------------------------------------------------------------------------
(* turn.rs: the 18 moves *)

ALL == <<"U", "U2", "U3", "R", "R2", "R3", "F", "F2", "F3",
         "D", "D2", "D3", "L", "L2", "L3", "B", "B2", "B3">>

\* PHASE2_MOVES with the quarter turn R in the place of R2
PHASE2_MOVES_QuarterR == <<"U", "U2", "U3", "D", "D2", "D3", "R", "L2", "F2", "B2">>

PHASE2_MOVES == <<"U", "U2", "U3", "D", "D2", "D3", "R2", "L2", "F2", "B2">>

Turns == {ALL[i] : i \in 1..18}

QuarterTurns == {"U", "R", "F", "D", "L", "B"}
HalfTurns    == {"U2", "R2", "F2", "D2", "L2", "B2"}
PrimeTurns   == {"U3", "R3", "F3", "D3", "L3", "B3"}

\* the first match of to_cubie
base_of(t) ==
    CASE t \in {"U", "U2", "U3"} -> GenU
      [] t \in {"R", "R2", "R3"} -> GenR
      [] t \in {"F", "F2", "F3"} -> GenF
      [] t \in {"D", "D2", "D3"} -> GenD
      [] t \in {"L", "L2", "L3"} -> GenL
      [] t \in {"B", "B2", "B3"} -> GenB

\* to_cubie with the arms of the half turns and the prime turns exchanged
to_cubie_ArmsSwapped(t) ==
    CASE t \in QuarterTurns -> base_of(t)
      [] t \in HalfTurns    -> multiply(base_of(t), multiply(base_of(t), base_of(t)))
      [] t \in PrimeTurns   -> multiply(base_of(t), base_of(t))

\* Turn::to_cubie
to_cubie(t) ==
    CASE t \in QuarterTurns -> base_of(t)
      [] t \in HalfTurns    -> multiply(base_of(t), base_of(t))
      [] t \in PrimeTurns   -> multiply(base_of(t), multiply(base_of(t), base_of(t)))

\* Turn::axis
axis(t) ==
    CASE t \in {"U", "U2", "U3", "D", "D2", "D3"} -> 0
      [] t \in {"L", "L2", "L3", "R", "R2", "R3"} -> 1
      [] t \in {"F", "F2", "F3", "B", "B2", "B3"} -> 2

\* Turn::face
face(t) ==
    CASE t \in {"U", "U2", "U3"} -> 0
      [] t \in {"D", "D2", "D3"} -> 1
      [] t \in {"L", "L2", "L3"} -> 2
      [] t \in {"R", "R2", "R3"} -> 3
      [] t \in {"F", "F2", "F3"} -> 4
      [] t \in {"B", "B2", "B3"} -> 5

\* Option<Turn>
None == [some |-> FALSE]
Some(v) == [some |-> TRUE, v |-> v]

\* is_move_allowed refusing both orders of two moves of the same axis
is_move_allowed_AxisOnce(current_move, last) ==
    IF ~last.some THEN TRUE
    ELSE IF face(current_move) = face(last.v) THEN FALSE
    ELSE IF axis(current_move) = axis(last.v) THEN FALSE
    ELSE TRUE

\* is_move_allowed with the order test of opposite faces turned around
is_move_allowed_OrderFlipped(current_move, last) ==
    IF ~last.some THEN TRUE
    ELSE IF face(current_move) = face(last.v) THEN FALSE
    ELSE IF axis(current_move) = axis(last.v) /\ face(current_move) > face(last.v) THEN FALSE
    ELSE TRUE

\* is_move_allowed(current_move, last)
is_move_allowed(current_move, last) ==
    IF ~last.some THEN TRUE
    ELSE IF face(current_move) = face(last.v) THEN FALSE
    ELSE IF axis(current_move) = axis(last.v) /\ face(current_move) < face(last.v) THEN FALSE
    ELSE TRUE

\* path.last().cloned()
last_of(p) == IF Len(p) = 0 THEN None ELSE Some(p[Len(p)])

----------------------------------------------------------------------------
(* cubie_cube.rs: Phase-1 coordinates *)

RECURSIVE get_twist_loop(_, _, _)
\* `for i in 0..7 { twist = 3 * twist + co[i] }`
get_twist_loop(self, i, twist) ==
    IF i = 7 THEN twist ELSE get_twist_loop(self, i + 1, 3 * twist + self.co[i])

\* get_twist folding all eight corners instead of the first seven
get_twist_Eight(self) == 3 * get_twist_loop(self, 0, 0) + self.co[7]

\* CubieCube::get_twist
get_twist(self) == get_twist_loop(self, 0, 0)

RECURSIVE get_flip_loop(_, _, _)
\* `for i in 0..11 { flip = 2 * flip + eo[i] }`
get_flip_loop(self, i, flip) ==
    IF i = 11 THEN flip ELSE get_flip_loop(self, i + 1, 2 * flip + self.eo[i])

\* get_flip folding all twelve edges instead of the first eleven
get_flip_Twelve(self) == 2 * get_flip_loop(self, 0, 0) + self.eo[11]

\* CubieCube::get_flip
get_flip(self) == get_flip_loop(self, 0, 0)

RECURSIVE get_slice_sorted_loop(_, _, _, _)
\* `while k >= 0 && n > 0`: position 0 is never inspected, k starts at 3
get_slice_sorted_loop(self, n, k, idx) ==
    IF k >= 0 /\ n > 0
    THEN IF self.ep[n] >= 8
         THEN get_slice_sorted_loop(self, n - 1, k - 1, idx + C_NK[n][k])
         ELSE get_slice_sorted_loop(self, n - 1, k, idx)
    ELSE idx

RECURSIVE get_slice_sorted_loop_Above8(_, _, _, _)
\* get_slice_sorted taking only the edges above 8 for slice edges
get_slice_sorted_loop_Above8(self, n, k, idx) ==
    IF k >= 0 /\ n > 0
    THEN IF self.ep[n] > 8
         THEN get_slice_sorted_loop_Above8(self, n - 1, k - 1, idx + C_NK[n][k])
         ELSE get_slice_sorted_loop_Above8(self, n - 1, k, idx)
    ELSE idx

get_slice_sorted_Above8(self) == get_slice_sorted_loop_Above8(self, 11, 3, 0)

\* CubieCube::get_slice_sorted
get_slice_sorted(self) == get_slice_sorted_loop(self, 11, 3, 0)

RECURSIVE set_twist_loop(_, _, _, _)
\* `for i in (0..7).rev()`; i = -1 is the end of the loop
set_twist_loop(cc, i, twist, sum_twist) ==
    IF i < 0
    THEN [cc EXCEPT !.co[7] = (3 - (sum_twist % 3)) % 3]
    ELSE set_twist_loop([cc EXCEPT !.co[i] = twist % 3], i - 1, twist \div 3,
                        sum_twist + (twist % 3))

\* set_twist that leaves the last corner untwisted
set_twist_NoParity(twist) == [set_twist_loop(SOLVED, 6, twist, 0) EXCEPT !.co[7] = 0]

\* CubieCube::set_twist
set_twist(twist) == set_twist_loop(SOLVED, 6, twist, 0)

RECURSIVE set_flip_loop(_, _, _, _)
\* `for i in (0..11).rev()`
set_flip_loop(cc, i, flip, sum_flip) ==
    IF i < 0
    THEN [cc EXCEPT !.eo[11] = (2 - (sum_flip % 2)) % 2]
    ELSE set_flip_loop([cc EXCEPT !.eo[i] = flip % 2], i - 1, flip \div 2,
                       sum_flip + (flip % 2))

\* CubieCube::set_flip
set_flip(flip) == set_flip_loop(SOLVED, 10, flip, 0)

\* outcome of a Rust panic (index out of range, usize underflow)
PANIC == [panic |-> TRUE]

RECURSIVE set_slice_sorted_loop(_, _, _, _)
\* `for n in (0..12).rev()`; slice_edges[k - 1] and other_edges[n - k] panic when
\* the index leaves the array
set_slice_sorted_loop(cc, n, idx, k) ==
    IF n < 0 THEN cc
    ELSE IF idx >= C_NK[n][k]
         THEN IF k = 0 THEN PANIC
              ELSE set_slice_sorted_loop([cc EXCEPT !.ep[n] = 8 + (k - 1)],
                                         n - 1, idx - C_NK[n][k], k - 1)
         ELSE IF n - k < 0 \/ n - k > 7 THEN PANIC
              ELSE set_slice_sorted_loop([cc EXCEPT !.ep[n] = n - k], n - 1, idx, k)

\* CubieCube::set_slice_sorted
set_slice_sorted(idx) == set_slice_sorted_loop(SOLVED, 11, idx, 4)

----------------------------------------------------------------------------
(* cubie_cube.rs: Phase-2 coordinates *)

\* the inner loop: how many val[j], i < j < n, are smaller than val[i]
smaller_right(val, i, n) == Cardinality({j \in (i + 1)..(n - 1) : val[j] < val[i]})

RECURSIVE lehmer_loop(_, _, _, _)
\* `for i in 0..n-1 { idx = (idx + count) * (n - 1 - i) }` over val[0..n]
lehmer_loop(val, i, n, idx) ==
    IF i = n - 1 THEN idx
    ELSE lehmer_loop(val, i + 1, n, (idx + smaller_right(val, i, n)) * (n - 1 - i))

\* get_corner_perm counting the larger instead of the smaller pieces to the right
get_corner_perm_Larger(self) ==
    lehmer_loop([i \in 0..7 |-> 7 - self.cp[i]], 0, 8, 0)

\* CubieCube::get_corner_perm
get_corner_perm(self) == lehmer_loop(self.cp, 0, 8, 0)

\* CubieCube::get_slice_perm: val = ep[8..12]
get_slice_perm(self) == lehmer_loop([k \in 0..3 |-> self.ep[8 + k]], 0, 4, 0)

\* CubieCube::get_ud_edges: val = ep[0..8]
get_ud_edges(self) == lehmer_loop([k \in 0..7 |-> self.ep[k]], 0, 8, 0)

\* Vec::remove(selected_idx) on a Vec held as a sequence
vec_remove(available, selected_idx) ==
    SubSeq(available, 1, selected_idx) \o SubSeq(available, selected_idx + 2, Len(available))

RECURSIVE decode_perm(_, _, _, _, _)
\* the decoding loop shared by set_corner_perm, set_ud_edges and set_slice_perm:
\* `selected_idx = idx / fact; idx %= fact; out[i] = available.remove(selected_idx)`
\* for i in 0..last, then out[last] = available[0]; facts[i] is the divisor of step i
decode_perm(idx, available, facts, i, out) ==
    IF i = Len(facts)
    THEN Append(out, available[1])
    ELSE IF idx \div facts[i + 1] >= Len(available) THEN <<>>
         ELSE decode_perm(idx % facts[i + 1],
                          vec_remove(available, idx \div facts[i + 1]),
                          facts, i + 1,
                          Append(out, available[(idx \div facts[i + 1]) + 1]))

\* FACTORIALS_7[7 - i] for i in 0..7
Facts8 == [i \in 1..7 |-> FACTORIALS_7[7 - (i - 1)]]

\* `let facts = [6, 2, 1]`
Facts4 == <<6, 2, 1>>

\* CubieCube::set_corner_perm
set_corner_perm(idx) ==
    LET out == decode_perm(idx, <<0, 1, 2, 3, 4, 5, 6, 7>>, Facts8, 0, <<>>)
    IN  IF out = <<>> THEN PANIC ELSE [SOLVED EXCEPT !.cp = Arr(out)]

\* CubieCube::set_ud_edges
set_ud_edges(idx) ==
    LET out == decode_perm(idx, <<0, 1, 2, 3, 4, 5, 6, 7>>, Facts8, 0, <<>>)
    IN  IF out = <<>> THEN PANIC
        ELSE [SOLVED EXCEPT !.ep = [k \in 0..11 |-> IF k < 8 THEN out[k + 1] ELSE k]]

\* set_slice_perm decoding with the divisors in the wrong order
set_slice_perm_BadFacts(idx) ==
    LET out == decode_perm(idx % 6, <<8, 9, 10, 11>>, <<2, 1, 1>>, 0, <<>>)
    IN  IF out = <<>> THEN PANIC
        ELSE [SOLVED EXCEPT !.ep = [k \in 0..11 |-> IF k < 8 THEN k ELSE out[k - 7]]]

\* CubieCube::set_slice_perm
set_slice_perm(idx) ==
    LET out == decode_perm(idx, <<8, 9, 10, 11>>, Facts4, 0, <<>>)
    IN  IF out = <<>> THEN PANIC
        ELSE [SOLVED EXCEPT !.ep = [k \in 0..11 |-> IF k < 8 THEN k ELSE out[k - 7]]]

----------------------------------------------------------------------------
(* Values of the variables a specification does not use *)

NoSolution == [some |-> FALSE]

\* no NibbleArray has been constructed
NoArray == [data |-> <<>>, length |-> 0]

\* no Solver has been constructed
NoTables == [levels |-> <<>>, slice_reached |-> {}]

SearchIdle ==
    /\ p1_bound = 0
    /\ best_length = 0
    /\ best_solution = NoSolution
    /\ path = <<>>
    /\ p2_path = <<>>
    /\ stack = <<>>
    /\ ret = FALSE
    /\ result = NoSolution
    /\ table = NoArray

SolverIdle == SearchIdle /\ tables = NoTables

AlgIdle ==
    /\ opa = SOLVED
    /\ opb = SOLVED
    /\ opc = SOLVED
    /\ opr = [op |-> "none"]

CoordIdle ==
    /\ cin = [kind |-> "none"]
    /\ cout = [done |-> FALSE]

----------------------------------------------------------------------------
(* The cubie walk: face turns applied to the solved cube, one at a time *)

InitTurns ==
    /\ cube = SOLVED
    /\ hist = <<>>
    /\ pc = "walk"
    /\ turns = 0
    /\ SolverIdle /\ AlgIdle /\ CoordIdle

\* `*self = self.multiply(&m.to_cubie())` for any of the 18 moves
Turn(m) ==
    /\ pc = "walk"
    /\ turns < MaxTurns
    /\ cube' = multiply(cube, to_cubie(m))
    /\ turns' = turns + 1
    /\ UNCHANGED <<hist, pc, solverVars, algVars, coordVars>>

NextTurns == \E m \in Turns : Turn(m)

SpecTurns == InitTurns /\ [][NextTurns]_vars

----------------------------------------------------------------------------
(* Cubie algebra: multiply, inverse and the move-cycle test on drawn operands *)

\* valid but unreachable cubie states: one corner twisted, one edge flipped,
\* two edges exchanged
TwistedCorner == [SOLVED EXCEPT !.co[0] = 1]
FlippedEdge   == [SOLVED EXCEPT !.eo[3] = 1]
SwappedEdges  == [SOLVED EXCEPT !.ep[0] = 8, !.ep[8] = 0]

ValidSeeds == {SOLVED, TwistedCorner, FlippedEdge, SwappedEdges}

\* moves: Vec<CubieCube> of PruningTables::generate, the 18 cubies computed once
moves == [t \in Turns |-> to_cubie(t)]

RECURSIVE TurnClosure(_, _, _)
\* the states obtained from `from` by at most n moves of `ms`
TurnClosure(from, ms, n) ==
    IF n = 0 THEN from
    ELSE TurnClosure(from \cup {multiply(c, moves[m]) : c \in from, m \in ms}, ms, n - 1)

OperandsA == TurnClosure(ValidSeeds, Turns, AlgTurns)
OperandsB == ValidSeeds \cup {moves[t] : t \in Turns}
OperandsC == {GenR, GenF, multiply(TwistedCorner, GenU), multiply(SwappedEdges, GenB)}

InitCube ==
    /\ cube = SOLVED
    /\ hist = <<>>
    /\ pc = "algebra"
    /\ turns = 0
    /\ opa \in OperandsA
    /\ opb \in OperandsB
    /\ opc \in OperandsC
    /\ opr = [op |-> "none"]
    /\ SolverIdle /\ CoordIdle

\* a.multiply(&b): both operands are shared borrows, the product is a new value
MultiplyOp ==
    /\ pc = "algebra"
    /\ opr.op = "none"
    /\ opr' = [op |-> "multiply", v |-> multiply(opa, opb)]
    /\ UNCHANGED <<cube, hist, pc, turns, opa, opb, opc, solverVars, coordVars>>

\* a.inverse()
InverseOp ==
    /\ pc = "algebra"
    /\ opr.op = "none"
    /\ opr' = [op |-> "inverse", v |-> inverse(opa)]
    /\ UNCHANGED <<cube, hist, pc, turns, opa, opb, opc, solverVars, coordVars>>

\* the body of test_all_move_cycles for the move m whose cubie is the first operand
CycleTest(m) ==
    /\ pc = "algebra"
    /\ opr.op = "none"
    /\ opa = to_cubie(m)
    /\ LET m_cubie == to_cubie(m)
           m2 == multiply(m_cubie, m_cubie)
       IN  opr' = [op |-> "cycle", m |-> m, m2 |-> m2, m4 |-> multiply(m2, m2)]
    /\ UNCHANGED <<cube, hist, pc, turns, opa, opb, opc, solverVars, coordVars>>

NextCube ==
    \/ MultiplyOp
    \/ InverseOp
    \/ \E m \in Turns : CycleTest(m)

SpecCube == InitCube /\ [][NextCube]_vars

----------------------------------------------------------------------------
(* pruning_table.rs: move tables *)

\* the ranges of the coordinates, the row counts of the move tables
N_TWIST       == 2187
N_FLIP        == 2048
N_SLICE       == 495
N_PERM        == 40320
N_SLICE_PERM  == 24

\* the cubie of move index m_idx (0..17): moves[m_idx] of generate
move_cubie(m_idx) == moves[ALL[m_idx + 1]]

\* twist_move filled with the move applied on the wrong side
twist_move_Premultiply(i, m_idx) == get_twist(multiply(move_cubie(m_idx), set_twist(i)))

\* twist_move[i][m_idx]
twist_move(i, m_idx) == get_twist(multiply(set_twist(i), move_cubie(m_idx)))

\* flip_move[i][m_idx]
flip_move(i, m_idx) == get_flip(multiply(set_flip(i), move_cubie(m_idx)))

\* slice_move[i][m_idx]
slice_move(i, m_idx) == get_slice_sorted(multiply(set_slice_sorted(i), move_cubie(m_idx)))

\* cp_move[i][m_idx]
cp_move(i, m_idx) == get_corner_perm(multiply(set_corner_perm(i), move_cubie(m_idx)))

\* ud_edge_move[i][m_idx]
ud_edge_move(i, m_idx) == get_ud_edges(multiply(set_ud_edges(i), move_cubie(m_idx)))

\* ep_slice_move[i][m_idx]
ep_slice_move(i, m_idx) == get_slice_perm(multiply(set_slice_perm(i), move_cubie(m_idx)))

\* the index list with 3 (R) where 4 (R2) belongs
phase2_moves_IndexOfR == <<0, 1, 2, 9, 10, 11, 3, 13, 7, 16>>

\* `let phase2_moves = vec![0, 1, 2, 9, 10, 11, 4, 13, 7, 16]`
phase2_moves == <<0, 1, 2, 9, 10, 11, 4, 13, 7, 16>>

----------------------------------------------------------------------------
(* pruning_table.rs: the four pruning tables                                   *)
(*                                                                             *)
(* generate_pruning_table and generate_phase2_pruning are breadth-first        *)
(* searches from the start cell: a cell first reached from a cell of distance  *)
(* d is written d + 1 and never written again, every other cell keeps 0xf.     *)
(* The tables have about a million cells each, so the model expands the        *)
(* search level by level up to PruneDepth and knows of a deeper cell only that *)
(* its entry is larger than PruneDepth.                                        *)

PruningTableNames == {"twist_slice", "flip_slice", "corner_slice", "ud_edge_slice"}

\* the 0xf that NibbleArray::new fills the table with
UNVISITED == 15

\* `if dist >= 14 { continue; }`
MAX_EXPANDED_DIST == 14

\* num_states_2 / size2 of each call in generate
num_states_2(tab) == IF tab \in {"twist_slice", "flip_slice"} THEN N_SLICE ELSE N_SLICE_PERM

\* start_combined = start_idx_1 * num_states_2 + start_idx_2, with the arguments
\* generate passes for each table
start_combined(tab) ==
    CASE tab = "twist_slice"   -> get_twist(SOLVED) * N_SLICE + get_slice_sorted(SOLVED)
      [] tab = "flip_slice"    -> get_flip(SOLVED) * N_SLICE + get_slice_sorted(SOLVED)
      [] tab = "corner_slice"  -> 0 * N_SLICE_PERM + 0
      [] tab = "ud_edge_slice" -> 0 * N_SLICE_PERM + 0

\* the move indices the search of each table iterates over
table_moves(tab) ==
    IF tab \in {"twist_slice", "flip_slice"} THEN 0..17
    ELSE {phase2_moves[k] : k \in 1..Len(phase2_moves)}

\* next_combined = next_1 * num_states_2 + next_2
next_combined(tab, current_combined, move_idx) ==
    LET idx_1 == current_combined \div num_states_2(tab)
        idx_2 == current_combined % num_states_2(tab)
        next_1 == CASE tab = "twist_slice"   -> twist_move(idx_1, move_idx)
                    [] tab = "flip_slice"    -> flip_move(idx_1, move_idx)
                    [] tab = "corner_slice"  -> cp_move(idx_1, move_idx)
                    [] tab = "ud_edge_slice" -> ud_edge_move(idx_1, move_idx)
        next_2 == IF tab \in {"twist_slice", "flip_slice"}
                  THEN slice_move(idx_2, move_idx)
                  ELSE ep_slice_move(idx_2, move_idx)
    IN  next_1 * num_states_2(tab) + next_2

RECURSIVE bfs_levels(_, _, _, _, _)
\* the cells written d, d+1, ..., PruneDepth by the search, given the cells of
\* distance d (frontier) and all cells written so far (visited)
bfs_levels(tab, d, frontier, visited, levels) ==
    IF d = PruneDepth \/ d >= MAX_EXPANDED_DIST \/ frontier = {}
    THEN [k \in 0..PruneDepth |-> IF k < d THEN levels[k] ELSE IF k = d THEN frontier ELSE {}]
    ELSE LET found == UNION {{next_combined(tab, c, m) : m \in table_moves(tab)} : c \in frontier}
             fresh == found \ visited
         IN  bfs_levels(tab, d + 1, fresh, visited \cup fresh,
                        [k \in 0..PruneDepth |-> IF k < d THEN levels[k]
                                                 ELSE IF k = d THEN frontier ELSE {}])

\* the levels 0..PruneDepth of each table
pruning_levels ==
    [tab \in PruningTableNames |->
        bfs_levels(tab, 0, {start_combined(tab)}, {start_combined(tab)},
                   [k \in 0..PruneDepth |-> {}])]

RECURSIVE slice_closure(_, _)
\* the slice coordinates the search can ever hold in the second component: the
\* start value and whatever slice_move leads to from there
slice_closure(frontier, visited) ==
    IF frontier = {} THEN visited
    ELSE LET found == {slice_move(i, m) : i \in frontier, m \in 0..17}
         IN  slice_closure(found \ visited, visited \cup found)

slice_reached == slice_closure({get_slice_sorted(SOLVED)}, {get_slice_sorted(SOLVED)})

\* PruningTables::generate, as far as the model expands it
generate == [levels |-> pruning_levels, slice_reached |-> slice_reached]

\* table.get(index) as far as the model knows it: `exact` tells whether `lo` is
\* the stored nibble or only a lower bound of it.  A Phase-1 cell whose slice
\* component the search never produces is never written and keeps 0xf.
pruning_get(tab, index) ==
    LET ds == {d \in 0..PruneDepth : index \in tables.levels[tab][d]}
    IN  IF ds # {} THEN [lo |-> CHOOSE d \in ds : TRUE, exact |-> TRUE]
        ELSE IF tab \in {"twist_slice", "flip_slice"} /\ (index % N_SLICE) \notin tables.slice_reached
             THEN [lo |-> UNVISITED, exact |-> TRUE]
        ELSE IF PruneDepth + 1 >= UNVISITED
             THEN [lo |-> UNVISITED, exact |-> TRUE]
        ELSE [lo |-> PruneDepth + 1, exact |-> FALSE]

\* std::cmp::max of two table entries
max_entry(a, b) ==
    [lo    |-> IF a.lo >= b.lo THEN a.lo ELSE b.lo,
     exact |-> \/ a.exact /\ b.exact
               \/ a.exact /\ a.lo = UNVISITED
               \/ b.exact /\ b.lo = UNVISITED]

----------------------------------------------------------------------------
(* solver.rs: Solver::solve, phase1_search, phase2_search                      *)
(*                                                                             *)
(* The two recursions run on an explicit stack of activation records.  A step  *)
(* whose branch depends on a pruning entry the model knows only a lower bound  *)
(* of, and which that bound does not decide, ends the run in pc = "cutoff".    *)

\* `max_length: 22` of Solver::new
max_length == 22

\* the last value of `for p1_bound in 0..=12`
LAST_P1_BOUND == 12

\* impl Display for Turn
display(t) ==
    CASE t \in QuarterTurns -> t
      [] t \in HalfTurns    -> t
      [] t = "U3" -> "U'"
      [] t = "R3" -> "R'"
      [] t = "F3" -> "F'"
      [] t = "D3" -> "D'"
      [] t = "L3" -> "L'"
      [] t = "B3" -> "B'"

\* format_solution: the tokens that are joined with " "
format_solution(ms) == [k \in 1..Len(ms) |-> display(ms[k])]

\* the token of a move string read back as a move
parse_turn(tok) == CHOOSE t \in Turns : display(t) = tok

RECURSIVE apply_sequence(_, _)
\* applySequence: left-to-right composition with the cubie of each token
apply_sequence(c, toks) ==
    IF toks = <<>> THEN c
    ELSE apply_sequence(multiply(c, to_cubie(parse_turn(Head(toks)))), Tail(toks))

\* scrambles longer than MaxScramble that CubieCube::scramble is followed along
SeedScrambles ==
    { <<"F", "U3", "F2">>,
      <<"D3", "B2", "U2", "L", "F2", "U2", "B2", "R", "D3">> }

IsSeedPrefix(h) ==
    \E sd \in SeedScrambles : Len(h) <= Len(sd) /\ SubSeq(sd, 1, Len(h)) = h

\* h1 of phase1_search
h1_of(c) ==
    max_entry(pruning_get("twist_slice", get_twist(c) * 495 + get_slice_sorted(c)),
              pruning_get("flip_slice", get_flip(c) * 495 + get_slice_sorted(c)))

\* h2 of phase2_search
h2_of(c) ==
    max_entry(pruning_get("corner_slice", get_corner_perm(c) * 24 + get_slice_perm(c)),
              pruning_get("ud_edge_slice", get_ud_edges(c) * 24 + get_slice_perm(c)))

\* `g + h > bound` is known to hold
SurelyAbove(g, h, bound) == g + h.lo > bound

\* `g + h >= bound` is known to hold
SurelyAtLeast(g, h, bound) == g + h.lo >= bound

\* the test `h1 == 0 && g == p1_bound` that starts Phase 2, one level too early
at_phase1_goal_Early(h1, g, bound) == h1.lo = 0 /\ g + 1 = bound

\* `h1 == 0 && g == p1_bound`
at_phase1_goal(h1, g, bound) == h1.lo = 0 /\ g = bound

\* `h2 == 0 && cp == 0 && ud == 0 && slice == 0`
is_phase2_goal(h2, cp, ud, slice) == h2.lo = 0 /\ cp = 0 /\ ud = 0 /\ slice = 0

\* an activation record of phase1_search (fn = "p1") or phase2_search ("p2"):
\* its arguments (entry is the value of `path` it is called with) and its locals
Frame(fn, c, g, bound, p) ==
    [fn |-> fn, cube |-> c, g |-> g, bound |-> bound, entry |-> p, st |-> "enter",
     mi |-> 1, last |-> None, p2b |-> 0, max_p2 |-> 0]

Top == stack[Len(stack)]
Pop(q) == SubSeq(q, 1, Len(q) - 1)
SetTop(f) == [stack EXCEPT ![Len(stack)] = f]

\* the first index >= from of a move of ms that is_move_allowed lets follow
\* `last`; Len(ms) + 1 when the loop is over
next_allowed(ms, from, last) ==
    IF \E k \in from..Len(ms) : is_move_allowed(ms[k], last)
    THEN CHOOSE k \in from..Len(ms) :
            /\ is_move_allowed(ms[k], last)
            /\ \A j \in from..(k - 1) : ~is_move_allowed(ms[j], last)
    ELSE Len(ms) + 1

InitSolver ==
    /\ cube = SOLVED
    /\ hist = <<>>
    /\ pc = "scramble"
    /\ turns = 0
    /\ tables = generate
    /\ SearchIdle /\ AlgIdle /\ CoordIdle

\* one round of the loop of CubieCube::scramble whose candidate is allowed
Scramble(m) ==
    /\ pc = "scramble"
    /\ is_move_allowed(m, last_of(hist))
    /\ Len(hist) < MaxScramble \/ IsSeedPrefix(Append(hist, m))
    /\ cube' = multiply(cube, to_cubie(m))
    /\ hist' = Append(hist, m)
    /\ UNCHANGED <<pc, turns, solverVars, algVars, coordVars>>

\* entry of solve: best_solution = None, best_length = max_length + 1
StartSolve ==
    /\ pc = "scramble"
    /\ pc' = "driver"
    /\ best_solution' = NoSolution
    /\ best_length' = max_length + 1
    /\ p1_bound' = 0
    /\ UNCHANGED <<cube, hist, turns, path, p2_path, stack, ret, result, tables,
                   table,
                   algVars, coordVars>>

\* best_solution.map(|s| self.format_solution(&s))
solve_result ==
    IF best_solution.some THEN Some(format_solution(best_solution.v)) ELSE NoSolution

\* the range 0..=12 is used up
DriverExhausted ==
    /\ pc = "driver"
    /\ p1_bound > LAST_P1_BOUND
    /\ pc' = "done"
    /\ result' = solve_result
    /\ UNCHANGED <<cube, hist, turns, p1_bound, best_length, best_solution, path,
                   p2_path, stack, ret, tables, table, algVars, coordVars>>

\* `if p1_bound >= best_length { break; }`
DriverBreak ==
    /\ pc = "driver"
    /\ p1_bound <= LAST_P1_BOUND
    /\ p1_bound >= best_length
    /\ pc' = "done"
    /\ result' = solve_result
    /\ UNCHANGED <<cube, hist, turns, p1_bound, best_length, best_solution, path,
                   p2_path, stack, ret, tables, table, algVars, coordVars>>

\* the call of phase1_search without the test against best_length before it
DriverCall_NoBreakTest ==
    /\ pc = "driver"
    /\ p1_bound <= LAST_P1_BOUND
    /\ pc' = "run"
    /\ path' = <<>>
    /\ stack' = <<Frame("p1", cube, 0, p1_bound, <<>>)>>
    /\ UNCHANGED <<cube, hist, turns, p1_bound, best_length, best_solution,
                   p2_path, ret, result, tables, table, algVars, coordVars>>

\* `let mut path = Vec::new(); self.phase1_search(cube, 0, p1_bound, ...)`
DriverCall ==
    /\ pc = "driver"
    /\ p1_bound <= LAST_P1_BOUND
    /\ p1_bound < best_length
    /\ pc' = "run"
    /\ path' = <<>>
    /\ stack' = <<Frame("p1", cube, 0, p1_bound, <<>>)>>
    /\ UNCHANGED <<cube, hist, turns, p1_bound, best_length, best_solution,
                   p2_path, ret, result, tables, table, algVars, coordVars>>

\* phase1_search returns: to the driver, which steps p1_bound, or to the
\* expansion loop of the caller, which pops the move it pushed
ReturnFromPhase1 ==
    IF Len(stack) = 1
    THEN /\ stack' = <<>>
         /\ pc' = "driver"
         /\ p1_bound' = p1_bound + 1
         /\ path' = path
    ELSE /\ stack' = [Pop(stack) EXCEPT ![Len(stack) - 1].st = "expand"]
         /\ pc' = pc
         /\ p1_bound' = p1_bound
         /\ path' = Pop(path)

\* phase1_search from its entry to the first loop or return
Phase1Enter ==
    /\ pc = "run"
    /\ Top.fn = "p1"
    /\ Top.st = "enter"
    /\ LET f  == Top
           h1 == h1_of(f.cube)
       IN  IF SurelyAbove(f.g, h1, f.bound) \/ SurelyAtLeast(f.g, h1, best_length)
           THEN ReturnFromPhase1
           ELSE IF ~h1.exact
           THEN /\ pc' = "cutoff"
                /\ UNCHANGED <<stack, p1_bound, path>>
           ELSE IF at_phase1_goal(h1, f.g, f.bound)
           THEN /\ stack' = SetTop([f EXCEPT !.st = "handoff", !.p2b = 0,
                                             !.max_p2 = best_length - f.g - 1])
                /\ UNCHANGED <<pc, p1_bound, path>>
           ELSE IF f.g = f.bound
           THEN ReturnFromPhase1
           ELSE /\ stack' = SetTop([f EXCEPT !.st = "expand", !.mi = 1,
                                             !.last = last_of(path)])
                /\ UNCHANGED <<pc, p1_bound, path>>
    /\ UNCHANGED <<cube, hist, turns, best_length, best_solution, p2_path, ret,
                   result, tables, table, algVars, coordVars>>

\* head of `for p2_bound in 0..=max_p2`: call phase2_search on a clone of path,
\* or leave the loop and return through `if g == p1_bound`
Phase1Handoff ==
    /\ pc = "run"
    /\ Top.fn = "p1"
    /\ Top.st = "handoff"
    /\ LET f == Top
       IN  IF f.p2b > f.max_p2
           THEN /\ ReturnFromPhase1
                /\ UNCHANGED p2_path
           ELSE /\ p2_path' = path
                /\ stack' = Append(SetTop([f EXCEPT !.st = "p2wait"]),
                                   Frame("p2", f.cube, 0, f.p2b, path))
                /\ UNCHANGED <<pc, p1_bound, path>>
    /\ UNCHANGED <<cube, hist, turns, best_length, best_solution, ret, result,
                   tables, table, algVars, coordVars>>

\* the body of the `if` recording the Phase-1 path instead of the path Phase 2 extended
Phase1AfterPhase2_RecordsPhase1Path ==
    /\ pc = "run"
    /\ Top.fn = "p1"
    /\ Top.st = "p2done"
    /\ LET f == Top
           total_length == f.g + f.p2b
       IN  IF ret
           THEN /\ IF total_length < best_length
                   THEN /\ best_length' = total_length
                        /\ best_solution' = Some(path)
                   ELSE UNCHANGED <<best_length, best_solution>>
                /\ ReturnFromPhase1
           ELSE /\ stack' = SetTop([f EXCEPT !.st = "handoff", !.p2b = f.p2b + 1])
                /\ UNCHANGED <<pc, p1_bound, path, best_length, best_solution>>
    /\ UNCHANGED <<cube, hist, turns, p2_path, ret, result, tables, table, algVars,
                   coordVars>>

\* the body of the `if self.phase2_search(..)` once the call has returned
Phase1AfterPhase2 ==
    /\ pc = "run"
    /\ Top.fn = "p1"
    /\ Top.st = "p2done"
    /\ LET f == Top
           total_length == f.g + f.p2b
       IN  IF ret
           THEN /\ IF total_length < best_length
                   THEN /\ best_length' = total_length
                        /\ best_solution' = Some(p2_path)
                   ELSE UNCHANGED <<best_length, best_solution>>
                /\ ReturnFromPhase1
           ELSE /\ stack' = SetTop([f EXCEPT !.st = "handoff", !.p2b = f.p2b + 1])
                /\ UNCHANGED <<pc, p1_bound, path, best_length, best_solution>>
    /\ UNCHANGED <<cube, hist, turns, p2_path, ret, result, tables, table, algVars,
                   coordVars>>

\* one round of `for &m in Turn::ALL.iter()` up to the recursive call
Phase1Expand ==
    /\ pc = "run"
    /\ Top.fn = "p1"
    /\ Top.st = "expand"
    /\ LET f == Top
           k == next_allowed(ALL, f.mi, f.last)
       IN  IF k > Len(ALL)
           THEN ReturnFromPhase1
           ELSE /\ path' = Append(path, ALL[k])
                /\ stack' = Append(SetTop([f EXCEPT !.st = "childwait", !.mi = k + 1]),
                                   Frame("p1", multiply(f.cube, to_cubie(ALL[k])),
                                         f.g + 1, f.bound, Append(path, ALL[k])))
                /\ UNCHANGED <<pc, p1_bound>>
    /\ UNCHANGED <<cube, hist, turns, best_length, best_solution, p2_path, ret,
                   result, tables, table, algVars, coordVars>>

\* phase2_search returns v.  `true` is passed on by every caller up to
\* phase1_search without touching the path; after `false` the caller pops the
\* move it pushed and resumes its loop
ReturnFromPhase2(v) ==
    IF v
    THEN LET n == CHOOSE j \in 1..Len(stack) :
                    stack[j].fn = "p1" /\ \A i \in (j + 1)..Len(stack) : stack[i].fn = "p2"
         IN  /\ stack' = [SubSeq(stack, 1, n) EXCEPT ![n].st = "p2done"]
             /\ ret' = TRUE
             /\ p2_path' = p2_path
    ELSE IF stack[Len(stack) - 1].fn = "p1"
    THEN /\ stack' = [Pop(stack) EXCEPT ![Len(stack) - 1].st = "p2done"]
         /\ ret' = FALSE
         /\ p2_path' = p2_path
    ELSE /\ stack' = [Pop(stack) EXCEPT ![Len(stack) - 1].st = "expand"]
         /\ ret' = ret
         /\ p2_path' = Pop(p2_path)

\* phase2_search from its entry to the loop or a return
Phase2Enter ==
    /\ pc = "run"
    /\ Top.fn = "p2"
    /\ Top.st = "enter"
    /\ LET f     == Top
           cp    == get_corner_perm(f.cube)
           ud    == get_ud_edges(f.cube)
           slice == get_slice_perm(f.cube)
           h2    == h2_of(f.cube)
       IN  IF SurelyAbove(f.g, h2, f.bound)
           THEN ReturnFromPhase2(FALSE) /\ pc' = pc
           ELSE IF ~h2.exact
           THEN /\ pc' = "cutoff"
                /\ UNCHANGED <<stack, ret, p2_path>>
           ELSE IF is_phase2_goal(h2, cp, ud, slice)
           THEN ReturnFromPhase2(f.g = f.bound) /\ pc' = pc
           ELSE IF f.g = f.bound
           THEN ReturnFromPhase2(FALSE) /\ pc' = pc
           ELSE /\ stack' = SetTop([f EXCEPT !.st = "expand", !.mi = 1,
                                             !.last = last_of(p2_path)])
                /\ UNCHANGED <<pc, ret, p2_path>>
    /\ UNCHANGED <<cube, hist, turns, p1_bound, best_length, best_solution, path,
                   result, tables, table, algVars, coordVars>>

\* one round of `for &m in Turn::PHASE2_MOVES.iter()` up to the recursive call
Phase2Expand ==
    /\ pc = "run"
    /\ Top.fn = "p2"
    /\ Top.st = "expand"
    /\ LET f == Top
           k == next_allowed(PHASE2_MOVES, f.mi, f.last)
       IN  IF k > Len(PHASE2_MOVES)
           THEN ReturnFromPhase2(FALSE)
           ELSE /\ p2_path' = Append(p2_path, PHASE2_MOVES[k])
                /\ stack' = Append(SetTop([f EXCEPT !.st = "childwait", !.mi = k + 1]),
                                   Frame("p2", multiply(f.cube, to_cubie(PHASE2_MOVES[k])),
                                         f.g + 1, f.bound,
                                         Append(p2_path, PHASE2_MOVES[k])))
                /\ UNCHANGED ret
    /\ UNCHANGED <<cube, hist, turns, pc, p1_bound, best_length, best_solution, path,
                   result, tables, table, algVars, coordVars>>

Next ==
    \/ \E m \in Turns : Scramble(m)
    \/ StartSolve
    \/ DriverExhausted
    \/ DriverBreak
    \/ DriverCall
    \/ Phase1Enter
    \/ Phase1Handoff
    \/ Phase1AfterPhase2
    \/ Phase1Expand
    \/ Phase2Enter
    \/ Phase2Expand

Init == InitSolver

Spec == Init /\ [][Next]_vars

----------------------------------------------------------------------------
(* Properties of the solver *)

\* solve has returned
Returned == pc = "done"

\* C1: whenever solve returns a move sequence for a cube reached from solved by
\* face turns, applying the moves of that sequence left to right to the cube
\* gives exactly SOLVED.
C1_SolutionSolves ==
    (Returned /\ result.some) => apply_sequence(cube, result.v) = SOLVED

\* C2: for a cube reached from solved by face turns, solve (maximum length 22)
\* returns a move sequence: the absent result never occurs.
C2_AlwaysReturnsSequence ==
    Returned => result.some

\* C3: solve on the SOLVED cube returns the present, empty move sequence, and
\* the driver never calls phase1_search with p1_bound = 1: the only search runs
\* under p1_bound = 0 and the loop breaks when p1_bound has become 1.
C3_SolvedGivesEmpty ==
    (cube = SOLVED /\ pc # "scramble") =>
        /\ pc # "cutoff"
        /\ p1_bound <= 1
        /\ stack # <<>> => p1_bound = 0
        /\ Returned => (result = Some(<<>>) /\ p1_bound = 1)

\* solve has returned on the solved cube
C3_Witness == Returned /\ cube = SOLVED /\ hist = <<>> /\ result = Some(<<>>)

\* C4: for a cube obtained from solved by a scramble of n <= 4 face turns,
\* solve returns a sequence of at most n moves that solves the cube.
C4_ShortScrambleShortSolution ==
    (Returned /\ Len(hist) <= 4) =>
        /\ result.some
        /\ Len(result.v) <= Len(hist)
        /\ apply_sequence(cube, result.v) = SOLVED

----------------------------------------------------------------------------
(* Properties of the cubie model *)

IsPermutation(p, n) ==
    /\ DOMAIN p = 0..(n - 1)
    /\ \A v \in 0..(n - 1) : \E i \in 0..(n - 1) : p[i] = v

RECURSIVE SumTo(_, _)
\* f[0] + ... + f[n - 1]
SumTo(f, n) == IF n = 0 THEN 0 ELSE f[n - 1] + SumTo(f, n - 1)

\* parity of a permutation: 0 even, 1 odd
Sign(p, n) ==
    Cardinality({ij \in (0..(n - 1)) \X (0..(n - 1)) : ij[1] < ij[2] /\ p[ij[1]] > p[ij[2]]}) % 2

IsValidCubie(c) ==
    /\ IsPermutation(c.cp, 8)
    /\ IsPermutation(c.ep, 12)
    /\ \A i \in 0..7 : c.co[i] \in 0..2
    /\ \A i \in 0..11 : c.eo[i] \in 0..1

IsLegalCubie(c) ==
    /\ IsValidCubie(c)
    /\ SumTo(c.co, 8) % 3 = 0
    /\ SumTo(c.eo, 12) % 2 = 0
    /\ Sign(c.cp, 8) = Sign(c.ep, 12)

\* C5: every state reached from SOLVED by any sequence of the 18 moves keeps cp
\* and ep permutations, has sum(co) = 0 mod 3, sum(eo) = 0 mod 2 and
\* sign(cp) = sign(ep).
C5_ReachableStatesLegal == pc = "walk" => IsLegalCubie(cube)

\* a walk of full length that twisted corners, flipped edges and left an odd
\* permutation
C5_Witness ==
    /\ pc = "walk"
    /\ turns = MaxTurns
    /\ \E i \in 0..7 : cube.co[i] # 0
    /\ \E i \in 0..11 : cube.eo[i] # 0
    /\ Sign(cube.cp, 8) = 1

\* C6: for every move m of Turn::ALL the cubie of m composed with itself four
\* times is SOLVED, and for every half turn the cubie composed with itself twice
\* is SOLVED.
C6_MoveCycles ==
    opr.op = "cycle" =>
        /\ opr.m4 = SOLVED
        /\ (opr.m \in HalfTurns => opr.m2 = SOLVED)

\* the cycle test ran on a prime turn, whose square is not the identity
C6_Witness == opr.op = "cycle" /\ opr.m = "F3" /\ opr.m2 # SOLVED /\ opa = to_cubie("F3")

\* the cycle test ran on a half turn
C6_WitnessHalf == opr.op = "cycle" /\ opr.m = "R2" /\ opa # SOLVED

\* C7: for every valid cubie state c, inverse(c) is a two-sided inverse:
\* multiply(c, inverse(c)) = SOLVED and multiply(inverse(c), c) = SOLVED.
C7_InverseTwoSided ==
    (opr.op = "inverse" /\ IsValidCubie(opa)) =>
        /\ multiply(opa, opr.v) = SOLVED
        /\ multiply(opr.v, opa) = SOLVED

\* inverse was applied to a state with twisted corners, flipped edges and a
\* permutation that is not an involution
C7_Witness ==
    /\ opr.op = "inverse"
    /\ IsValidCubie(opa)
    /\ \E i \in 0..7 : opa.co[i] # 0
    /\ \E i \in 0..11 : opa.eo[i] # 0
    /\ opr.v.cp # opa.cp

\* C8: multiply is associative on valid cubie states, SOLVED is its two-sided
\* identity, and it returns a fresh state: computing the product leaves both
\* arguments as they were.
C8_MultiplyAssociative ==
    /\ [](opr.op = "multiply" =>
            /\ multiply(opr.v, opc) = multiply(opa, multiply(opb, opc))
            /\ multiply(opa, SOLVED) = opa
            /\ multiply(SOLVED, opa) = opa)
    /\ [][opr'.op = "multiply" => (opa' = opa /\ opb' = opb /\ opc' = opc)]_vars

\* a product of three valid states none of which is the identity, with twisted
\* corners in the first two, and which do not commute
C8_Witness ==
    /\ opr.op = "multiply"
    /\ opa # SOLVED /\ opb # SOLVED
    /\ \E i \in 0..7 : opa.co[i] # 0
    /\ \E i \in 0..7 : opb.co[i] # 0
    /\ multiply(opa, opb) # multiply(opb, opa)
    /\ opr.v # SOLVED

----------------------------------------------------------------------------
(* Coordinate round trips: get after set on a drawn index, set after get on a  *)
(* drawn state (test_coordinate_bijection, extended to whole ranges)           *)

Coordinates == {"twist", "flip", "slice", "cornerPerm", "udEdges", "slicePerm"}

CoordRange(c) ==
    CASE c = "twist"      -> N_TWIST
      [] c = "flip"       -> N_FLIP
      [] c = "slice"      -> N_SLICE
      [] c = "cornerPerm" -> N_PERM
      [] c = "udEdges"    -> N_PERM
      [] c = "slicePerm"  -> N_SLICE_PERM

coord_get(c, s) ==
    CASE c = "twist"      -> get_twist(s)
      [] c = "flip"       -> get_flip(s)
      [] c = "slice"      -> get_slice_sorted(s)
      [] c = "cornerPerm" -> get_corner_perm(s)
      [] c = "udEdges"    -> get_ud_edges(s)
      [] c = "slicePerm"  -> get_slice_perm(s)

coord_set(c, i) ==
    CASE c = "twist"      -> set_twist(i)
      [] c = "flip"       -> set_flip(i)
      [] c = "slice"      -> set_slice_sorted(i)
      [] c = "cornerPerm" -> set_corner_perm(i)
      [] c = "udEdges"    -> set_ud_edges(i)
      [] c = "slicePerm"  -> set_slice_perm(i)

\* the part of the cubie state a coordinate encodes: co, eo, the set of
\* positions holding slice edges, cp, ep[0..8], ep[8..12]
CoordPart(c, s) ==
    CASE c = "twist"      -> s.co
      [] c = "flip"       -> s.eo
      [] c = "slice"      -> {n \in 0..11 : s.ep[n] >= 8}
      [] c = "cornerPerm" -> s.cp
      [] c = "udEdges"    -> [k \in 0..7 |-> s.ep[k]]
      [] c = "slicePerm"  -> [k \in 0..3 |-> s.ep[8 + k]]

Phase2Turns == {PHASE2_MOVES[i] : i \in 1..10}

\* legal states, and states of G1, a few turns away from SOLVED
LegalStates == TurnClosure({SOLVED}, Turns, CoordTurns)
G1States    == TurnClosure({SOLVED}, Phase2Turns, CoordTurns)

CoordDomain(c) == IF c \in {"udEdges", "slicePerm"} THEN G1States ELSE LegalStates

\* the inputs of coordinate k: every index of its range, every state of its domain
CoordInputs(k) ==
    {[kind |-> "index", coord |-> k, i |-> i] : i \in 0..(CoordRange(k) - 1)}
    \cup
    {[kind |-> "state", coord |-> k, s |-> s] : s \in CoordDomain(k)}

InitCoord ==
    /\ cube = SOLVED
    /\ hist = <<>>
    /\ pc = "coord"
    /\ turns = 0
    /\ \E k \in Coordinates : cin \in CoordInputs(k)
    /\ cout = [done |-> FALSE]
    /\ SolverIdle /\ AlgIdle

\* get(set(i))
GetOfSet ==
    /\ pc = "coord"
    /\ cin.kind = "index"
    /\ ~cout.done
    /\ cout' = [done |-> TRUE, v |-> coord_get(cin.coord, coord_set(cin.coord, cin.i))]
    /\ UNCHANGED <<cube, hist, pc, turns, cin, solverVars, algVars>>

\* set(get(s))
SetOfGet ==
    /\ pc = "coord"
    /\ cin.kind = "state"
    /\ ~cout.done
    /\ cout' = [done |-> TRUE, v |-> coord_set(cin.coord, coord_get(cin.coord, cin.s))]
    /\ UNCHANGED <<cube, hist, pc, turns, cin, solverVars, algVars>>

NextCoord == GetOfSet \/ SetOfGet

SpecCoord == InitCoord /\ [][NextCoord]_vars

RoundTripHolds ==
    /\ cin.kind = "index" => cout.v = cin.i
    /\ cin.kind = "state" => CoordPart(cin.coord, cout.v) = CoordPart(cin.coord, cin.s)

\* C9: for twist, flip, cornerPerm, udEdges and slicePerm, get(set(i)) = i for
\* every i of the range, and set(get(s)) has the co, eo, cp, ep[0..8], ep[8..12]
\* of s for every s of the domain (legal states; G1 states for udEdges and
\* slicePerm).
C9_CoordinateRoundTrips ==
    (cout.done /\ cin.coord # "slice") => RoundTripHolds

\* set_twist(get_twist(s)) on a state whose last corner is twisted
C9_Witness ==
    /\ cout.done
    /\ cin.kind = "state"
    /\ cin.coord = "twist"
    /\ cin.s.co[7] # 0
    /\ cout.v.co = cin.s.co

\* get_ud_edges(set_ud_edges(i)) on the last index of the range
C9_WitnessIndex ==
    /\ cout.done
    /\ cin.kind = "index"
    /\ cin.coord = "udEdges"
    /\ cin.i = N_PERM - 1
    /\ cout.v = cin.i

\* C10: the slice coordinate is a bijection between the 495 choices of the
\* positions of the four slice edges and 0..494: get_slice_sorted(
\* set_slice_sorted(i)) = i for every i in 0..494, and set_slice_sorted(
\* get_slice_sorted(s)) has slice edges on exactly the positions where s has them.
C10_SliceBijection ==
    (cout.done /\ cin.coord = "slice") => RoundTripHolds

----------------------------------------------------------------------------
(* turn.rs: is_move_allowed called on every pair of a move and a last move *)

\* the arguments of is_move_allowed: any move, and no last move or any last move
AllowedInputs ==
    {[kind |-> "allowed", current |-> c, last |-> l] :
        c \in Turns, l \in {None} \cup {Some(t) : t \in Turns}}

InitAllowed ==
    /\ cube = SOLVED
    /\ hist = <<>>
    /\ pc = "allowed"
    /\ turns = 0
    /\ cin \in AllowedInputs
    /\ cout = [done |-> FALSE]
    /\ SolverIdle /\ AlgIdle

\* is_move_allowed(current_move, last)
CallIsMoveAllowed ==
    /\ pc = "allowed"
    /\ ~cout.done
    /\ cout' = [done |-> TRUE, v |-> is_move_allowed(cin.current, cin.last)]
    /\ UNCHANGED <<cube, hist, pc, turns, cin, solverVars, algVars>>

NextAllowed == CallIsMoveAllowed

SpecAllowed == InitAllowed /\ [][NextAllowed]_vars

\* the moves of each face
FaceTurns(f) == {f, f \o "2", f \o "3"}

\* the second face of each opposite pair: D of U/D, R of L/R, B of F/B
LaterFaceTurns == FaceTurns("D") \cup FaceTurns("R") \cup FaceTurns("B")

\* C11: is_move_allowed(current, last) is true exactly when last is absent, or
\* the two moves turn different faces and either lie on different axes or
\* last.face < current.face; so of the two orders of an opposite-face pair
\* exactly one is allowed (D after U, R after L, B after F).
C11_MoveAllowedRule ==
    cout.done =>
        LET c == cin.current
            l == cin.last
        IN  /\ cout.v <=> \/ ~l.some
                          \/ /\ face(c) # face(l.v)
                             /\ axis(c) # axis(l.v) \/ face(l.v) < face(c)
            /\ (l.some /\ axis(c) = axis(l.v) /\ face(c) # face(l.v)) =>
                   (cout.v <=> c \in LaterFaceTurns)

\* D2 after U' is allowed
C11_Witness ==
    /\ cout.done
    /\ cin.current = "D2"
    /\ cin.last = Some("U3")
    /\ cout.v

\* U after D is refused
C11_WitnessRefused ==
    /\ cout.done
    /\ cin.current = "U"
    /\ cin.last = Some("D")
    /\ ~cout.v

----------------------------------------------------------------------------
(* pruning_table.rs: the move tables looked up at the coordinate of a state, *)
(* against the coordinate of the state after the move                        *)

\* the entry [i][m_idx] of the move table of each coordinate
move_table(c, i, m_idx) ==
    CASE c = "twist"      -> twist_move(i, m_idx)
      [] c = "flip"       -> flip_move(i, m_idx)
      [] c = "slice"      -> slice_move(i, m_idx)
      [] c = "cornerPerm" -> cp_move(i, m_idx)
      [] c = "udEdges"    -> ud_edge_move(i, m_idx)
      [] c = "slicePerm"  -> ep_slice_move(i, m_idx)

\* the move indices a table is read with: all 18 in Phase 1 and for the corner
\* permutation, the Phase-2 subset for the coordinates that only mean something in G1
table_move_indices(c) ==
    IF c \in {"udEdges", "slicePerm"}
    THEN {phase2_moves[k] : k \in 1..Len(phase2_moves)}
    ELSE 0..17

\* a state of the coordinate's domain and a move index
TableInputs(k) ==
    {[kind |-> "table", coord |-> k, s |-> s, m_idx |-> m] :
        s \in CoordDomain(k), m \in table_move_indices(k)}

InitTables ==
    /\ cube = SOLVED
    /\ hist = <<>>
    /\ pc = "tables"
    /\ turns = 0
    /\ \E k \in Coordinates : cin \in TableInputs(k)
    /\ cout = [done |-> FALSE]
    /\ SolverIdle /\ AlgIdle

\* table[get(state)][m] and get(state.multiply(&moves[m]))
LookupAndCompose ==
    /\ pc = "tables"
    /\ ~cout.done
    /\ cout' = [done   |-> TRUE,
                table  |-> move_table(cin.coord, coord_get(cin.coord, cin.s), cin.m_idx),
                direct |-> coord_get(cin.coord, multiply(cin.s, move_cubie(cin.m_idx)))]
    /\ UNCHANGED <<cube, hist, pc, turns, cin, solverVars, algVars>>

NextTables == LookupAndCompose

SpecTables == InitTables /\ [][NextTables]_vars

\* C12: for every legal state s and every one of the 18 moves m,
\* slice_move[get_slice_sorted(s)][m] = get_slice_sorted(multiply(s, m.to_cubie())).
C12_SliceMoveAgrees ==
    (cout.done /\ cin.coord = "slice") => cout.table = cout.direct

\* C13: twist_move, flip_move and cp_move agree with the cubie model on every
\* legal state and all 18 moves, ud_edge_move and ep_slice_move on every G1 state
\* and every Phase-2 move: table[get(s)][m] = get(multiply(s, m.to_cubie())).
C13_MoveTablesAgree ==
    (cout.done /\ cin.coord # "slice") => cout.table = cout.direct

\* twist_move read at a state with twisted corners, for a move that twists corners
C13_Witness ==
    /\ cout.done
    /\ cin.coord = "twist"
    /\ get_twist(cin.s) # 0
    /\ ALL[cin.m_idx + 1] = "F"
    /\ cout.table = cout.direct
    /\ cout.direct # get_twist(cin.s)

\* ud_edge_move read at a G1 state other than SOLVED
C13_WitnessG1 ==
    /\ cout.done
    /\ cin.coord = "udEdges"
    /\ cin.s # SOLVED
    /\ cout.table # get_ud_edges(cin.s)
    /\ cout.table = cout.direct

----------------------------------------------------------------------------
(* pruning_table.rs: the entry of a pruning-table cell against the number of *)
(* moves that drive the cell to the goal cell through the move tables        *)

RECURSIVE moves_to_goal(_, _, _, _)
\* the least number n <= limit of moves of the table's move set that take some
\* cell of `frontier` (the cells d moves away from the examined cell) to the
\* start cell of the search, if there is one
moves_to_goal(tab, frontier, d, limit) ==
    IF start_combined(tab) \in frontier THEN [found |-> TRUE, n |-> d]
    ELSE IF d >= limit THEN [found |-> FALSE]
    ELSE moves_to_goal(tab,
                       UNION {{next_combined(tab, c, m) : m \in table_moves(tab)} : c \in frontier},
                       d + 1, limit)

\* the cells the search writes a distance of at most CellDepth into
CellInputs(tab) ==
    {[kind |-> "cell", tab |-> tab, index |-> c] :
        c \in UNION {pruning_levels[tab][k] : k \in 0..CellDepth}}

InitPruning ==
    /\ cube = SOLVED
    /\ hist = <<>>
    /\ pc = "pruning"
    /\ turns = 0
    /\ tables = generate
    /\ \E tab \in PruningTableNames : cin \in CellInputs(tab)
    /\ cout = [done |-> FALSE]
    /\ SearchIdle /\ AlgIdle

\* table.get(index), and the moves needed from that cell to the goal cell
MeasureCell ==
    /\ pc = "pruning"
    /\ ~cout.done
    /\ LET e == pruning_get(cin.tab, cin.index)
       IN  cout' = [done  |-> TRUE,
                    entry |-> e,
                    dist  |-> moves_to_goal(cin.tab, {cin.index}, 0, e.lo)]
    /\ UNCHANGED <<cube, hist, pc, turns, cin, solverVars, algVars>>

NextPruning == MeasureCell

SpecPruning == InitPruning /\ [][NextPruning]_vars

\* C14: every pruning-table cell whose value is below 15 holds exactly the least
\* number of moves of the table's move set that drive its coordinate pair to
\* the goal pair, and the goal cell holds 0.
C14_EntriesAreDistances ==
    (cout.done /\ cout.entry.exact /\ cout.entry.lo < UNVISITED) =>
        /\ cout.dist.found
        /\ cout.dist.n = cout.entry.lo
        /\ cin.index = start_combined(cin.tab) => cout.entry.lo = 0

----------------------------------------------------------------------------
(* Properties of the heuristics *)

\* the subgroup G1: nothing twisted, nothing flipped, the four slice edges in
\* the slice positions 8..11
InG1(c) ==
    /\ \A i \in 0..7 : c.co[i] = 0
    /\ \A i \in 0..11 : c.eo[i] = 0
    /\ {n \in 0..11 : c.ep[n] >= 8} = 8..11

RECURSIVE turns_until(_, _, _, _, _)
\* the least number n <= limit of moves of ms that take some cube of `frontier`
\* (the cubes d moves away from the examined cube) to a cube satisfying Goal
turns_until(Goal(_), ms, frontier, d, limit) ==
    IF \E c \in frontier : Goal(c) THEN [found |-> TRUE, n |-> d]
    ELSE IF d >= limit THEN [found |-> FALSE]
    ELSE turns_until(Goal, ms, {multiply(c, to_cubie(m)) : c \in frontier, m \in ms},
                     d + 1, limit)

IsSolved(c) == c = SOLVED

\* the activation on top of the stack is about to compute its heuristic
AtEntryOf(fn) == pc = "run" /\ stack # <<>> /\ Top.fn = fn /\ Top.st = "enter"

\* C15: h1, the larger of the twist-slice and flip-slice entries computed by
\* phase1_search, never exceeds the least number of moves that bring the cube
\* into G1, and h2 never exceeds the least number of Phase-2 moves that bring a
\* G1 state to SOLVED (stated for the cubes that are at most NearDepth moves away).
C15_HeuristicsAdmissible ==
    /\ AtEntryOf("p1") =>
          LET d == turns_until(InG1, Turns, {Top.cube}, 0, NearDepth)
          IN  d.found => h1_of(Top.cube).lo <= d.n
    /\ (AtEntryOf("p2") /\ InG1(Top.cube)) =>
          LET d == turns_until(IsSolved, Phase2Turns, {Top.cube}, 0, NearDepth)
          IN  d.found => h2_of(Top.cube).lo <= d.n

----------------------------------------------------------------------------
(* Reference values of the coordinates (kociemba_coordinate_test.rs) *)

RECURSIVE Pow3(_)
Pow3(n) == IF n = 0 THEN 1 ELSE 3 * Pow3(n - 1)

\* co[0..6] read as a base-3 number, co[0] the most significant digit
Base3Value(co) == SumTo([i \in 0..6 |-> co[i] * Pow3(6 - i)], 7)

\* the state whose coordinate LookupAndCompose reads directly
MovedState == multiply(cin.s, move_cubie(cin.m_idx))

\* C16: the generator R has twist coordinate 1494 and corner-permutation
\* coordinate 21021, and get_twist is co[0..6] read as a base-3 number, most
\* significant digit first.
C16_ReferenceValuesOfR ==
    (cout.done /\ cin.kind = "table") =>
        /\ (cin.coord = "twist" /\ MovedState = GenR) => cout.direct = 1494
        /\ (cin.coord = "cornerPerm" /\ MovedState = GenR) => cout.direct = 21021
        /\ cin.coord = "twist" => cout.direct = Base3Value(MovedState.co)

\* get_twist has been taken of SOLVED turned by R
C16_Witness ==
    /\ cout.done
    /\ cin.kind = "table"
    /\ cin.coord = "twist"
    /\ cin.s = SOLVED
    /\ ALL[cin.m_idx + 1] = "R"
    /\ MovedState = GenR
    /\ cout.direct = 1494

\* get_corner_perm has been taken of SOLVED turned by R
C16_WitnessCornerPerm ==
    /\ cout.done
    /\ cin.kind = "table"
    /\ cin.coord = "cornerPerm"
    /\ cin.s = SOLVED
    /\ MovedState = GenR
    /\ cout.direct = 21021

\* C17: SOLVED and every state reached from it by Phase-2 moves only has
\* twist = 0, flip = 0 and slice = 0, so the distance-0 cells of the twist-slice
\* and flip-slice pruning tables are the pairs (0, 0).
C17_G1CoordinatesZero ==
    (cout.done /\ cin.kind = "table" /\ cin.coord \in {"twist", "flip", "slice"}
              /\ cin.s \in G1States /\ ALL[cin.m_idx + 1] \in Phase2Turns) =>
        /\ cout.direct = 0
        /\ start_combined("twist_slice") = 0 * N_SLICE + 0
        /\ start_combined("flip_slice") = 0 * N_SLICE + 0

\* C18: whenever phase1_search computes h1 = 0, its cube is in G1 (no corner
\* twisted, no edge flipped, the slice edges on positions 8..11), so
\* phase2_search is only ever started from a G1 state.
C18_ZeroHeuristicMeansG1 ==
    /\ (AtEntryOf("p1") /\ h1_of(Top.cube) = [lo |-> 0, exact |-> TRUE]) => InG1(Top.cube)
    /\ \A k \in 1..Len(stack) :
          (stack[k].fn = "p2" /\ stack[k].g = 0) => InG1(stack[k].cube)

----------------------------------------------------------------------------
(* Properties of the Phase-1 driver *)

\* the driver has just called phase1_search
Phase1Started ==
    pc = "run" /\ Len(stack) = 1 /\ Top.fn = "p1" /\ Top.st = "enter" /\ Top.g = 0

\* p1_bound only moves from a bound to the next one
BoundsInOrder == [][p1_bound' # p1_bound => p1_bound' = p1_bound + 1]_vars

\* phase1_search is started with the bound the loop is at, below best_length
StartedBelowBest == Phase1Started => (Top.bound = p1_bound /\ p1_bound < best_length)

\* C19: the driver runs phase1_search for p1_bound = 0, 1, 2, ... in increasing
\* order and stops only when p1_bound >= best_length; phase1_search is never
\* started with p1_bound >= best_length.
C19_DriverStopsOnlyAtBest ==
    /\ BoundsInOrder
    /\ [](StartedBelowBest)
    /\ [](Returned => p1_bound >= best_length)

\* C19 as amended: the driver runs phase1_search for p1_bound = 0, 1, 2, ... in
\* increasing order and stops when p1_bound >= best_length or when the bounds
\* 0..12 are used up; phase1_search is never started with p1_bound >= best_length.
C19_DriverOrder ==
    /\ BoundsInOrder
    /\ [](StartedBelowBest)
    /\ [](Phase1Started => p1_bound <= LAST_P1_BOUND)
    /\ [](Returned => (p1_bound >= best_length \/ p1_bound = LAST_P1_BOUND + 1))

\* phase1_search has been started with the bound 3 after the bounds 0, 1, 2
C19_Witness == Phase1Started /\ p1_bound = 3

\* solve has returned because the bounds were used up
C19_WitnessUsedUp == Returned /\ p1_bound = LAST_P1_BOUND + 1 /\ p1_bound < best_length

----------------------------------------------------------------------------
(* Properties of best_length *)

\* solve is running or has returned
InSolve == pc # "scramble"

\* a step of solve that records a solution
Records == InSolve /\ (best_length' # best_length \/ best_solution' # best_solution)

----------------------------------------------------------------------------
(* pruning_table.rs: NibbleArray, two 4-bit entries per byte *)

\* largest size of a NibbleArray
MaxCells == 3
\* largest number of set calls on one NibbleArray
MaxSets == 2

\* bit k of a u8
Bit(a, k) == (a \div (2 ^ k)) % 2

\* u8 & u8
BitAnd(a, b) == SumTo([k \in 0..7 |-> Bit(a, k) * Bit(b, k) * (2 ^ k)], 8)

\* u8 | u8
BitOr(a, b) ==
    SumTo([k \in 0..7 |-> (IF Bit(a, k) + Bit(b, k) > 0 THEN 1 ELSE 0) * (2 ^ k)], 8)

\* u8 << n: the bits shifted out of the byte are lost
Shl(a, n) == (a * (2 ^ n)) % 256

\* u8 >> n
Shr(a, n) == a \div (2 ^ n)

\* NibbleArray::new(size, default)
NibbleArray_new(size, default) ==
    LET num_bytes == (size + 1) \div 2
        packed == BitOr(Shl(default, 4), BitAnd(default, 15))
    IN  [data |-> [b \in 0..(num_bytes - 1) |-> packed], length |-> size]

\* NibbleArray::get(&self, index)
NibbleArray_get(self, index) ==
    LET byte == self.data[index \div 2]
    IN  IF index % 2 = 0
        THEN BitAnd(byte, 15)
        ELSE BitAnd(Shr(byte, 4), 15)

\* a set that stores the value without keeping the other nibble of the byte
NibbleArray_set_WholeByte(self, index, value) ==
    LET byte_idx == index \div 2
    IN  IF index % 2 = 0
        THEN [self EXCEPT !.data[byte_idx] = BitAnd(value, 15)]
        ELSE [self EXCEPT !.data[byte_idx] = Shl(value, 4)]

\* NibbleArray::set(&mut self, index, value)
NibbleArray_set(self, index, value) ==
    LET byte_idx == index \div 2
        current_byte == self.data[byte_idx]
    IN  IF index % 2 = 0
        THEN [self EXCEPT !.data[byte_idx] = BitOr(BitAnd(current_byte, 240), BitAnd(value, 15))]
        ELSE [self EXCEPT !.data[byte_idx] = BitOr(BitAnd(current_byte, 15), Shl(value, 4))]

\* the values of a 4-bit cell
Nibbles == 0..15

\* the arrays constructed: any size, filled with 0 or with the sentinel 0xf
NibbleInputs ==
    {[kind |-> "nibbles", size |-> n, default |-> d] : n \in 0..MaxCells, d \in {0, 15}}

InitNibbles ==
    /\ cube = SOLVED
    /\ hist = <<>>
    /\ pc = "nibbles"
    /\ turns = 0
    /\ cin \in NibbleInputs
    /\ cout = [done |-> FALSE, sets |-> 0]
    /\ SolverIdle /\ AlgIdle

\* let mut table = NibbleArray::new(size, default)
NewArray ==
    /\ pc = "nibbles"
    /\ table = NoArray
    /\ ~cout.done
    /\ table' = NibbleArray_new(cin.size, cin.default)
    /\ cout' = [done |-> TRUE, op |-> "new", sets |-> 0]
    /\ UNCHANGED <<cube, hist, pc, turns, cin, p1_bound, best_length, best_solution, path,
                   p2_path, stack, ret, result, tables, algVars>>

\* table.set(index, value)
SetCell(index, value) ==
    /\ pc = "nibbles"
    /\ cout.done
    /\ cout.sets < MaxSets
    /\ index < table.length
    /\ table' = NibbleArray_set(table, index, value)
    /\ cout' = [done |-> TRUE, op |-> "set", index |-> index, value |-> value,
                sets |-> cout.sets + 1]
    /\ UNCHANGED <<cube, hist, pc, turns, cin, p1_bound, best_length, best_solution, path,
                   p2_path, stack, ret, result, tables, algVars>>

NextNibbles ==
    \/ NewArray
    \/ \E index \in 0..(MaxCells - 1), value \in Nibbles : SetCell(index, value)

SpecNibbles == InitNibbles /\ [][NextNibbles]_vars

\* C21: a new NibbleArray reads its default at every index below its length,
\* and set(i, v) with v in 0..15 makes get(i) = v and leaves get(j) as it was
\* for every other index j, the other nibble of the same byte included.
C21_NibblesIndependent ==
    /\ []((pc = "nibbles" /\ cout.done /\ cout.op = "new") =>
            /\ table.length = cin.size
            /\ \A i \in 0..(table.length - 1) : NibbleArray_get(table, i) = cin.default)
    /\ [][(pc = "nibbles" /\ cout'.done /\ cout'.op = "set") =>
            /\ NibbleArray_get(table', cout'.index) = cout'.value
            /\ table'.length = table.length
            /\ \A j \in 0..(table.length - 1) \ {cout'.index} :
                   NibbleArray_get(table', j) = NibbleArray_get(table, j)]_vars

\* cell 1 (upper nibble of byte 0) was set to 3 after cell 0 (its lower nibble)
\* had been set to 9, and cell 0 still reads 9
C21_Witness ==
    /\ pc = "nibbles"
    /\ cout.done /\ cout.op = "set"
    /\ cout.index = 1 /\ cout.value = 3
    /\ cin.default = 15
    /\ NibbleArray_get(table, 0) = 9
    /\ NibbleArray_get(table, 1) = 3
    /\ table.length = 3
    /\ NibbleArray_get(table, 2) = 15

----------------------------------------------------------------------------
(* cubie_cube.rs: get_slice_sorted on states that hold slice edges on the *)
(* same positions                                                         *)

\* the permutations of the edges 8..11 among themselves
SliceEdgePerms == {p \in [8..11 -> 8..11] : \A v \in 8..11 : \E i \in 8..11 : p[i] = v}

\* some permutations of the edges 0..7 among themselves: none, a swap, a
\* 3-cycle, the reversal
UdEdgePerms ==
    {[e \in 0..7 |-> e],
     [e \in 0..7 |-> IF e = 0 THEN 1 ELSE IF e = 1 THEN 0 ELSE e],
     [e \in 0..7 |-> IF e = 2 THEN 5 ELSE IF e = 5 THEN 7 ELSE IF e = 7 THEN 2 ELSE e],
     [e \in 0..7 |-> 7 - e]}

\* the even renamings of the edges that keep slice edges slice edges: applied
\* to a legal state they give a legal state
Renamings ==
    {sigma \in {[e \in 0..11 |-> IF e >= 8 THEN p[e] ELSE q[e]] :
                    p \in SliceEdgePerms, q \in UdEdgePerms} : Sign(sigma, 12) = 0}

\* the state with every edge e replaced by the edge sigma[e]
Renamed(sigma, s) == [s EXCEPT !.ep = [n \in 0..11 |-> sigma[s.ep[n]]]]

SliceInputs == {[kind |-> "slice", s |-> s, sigma |-> g] : s \in LegalStates, g \in Renamings}

InitSlice ==
    /\ cube = SOLVED
    /\ hist = <<>>
    /\ pc = "slice"
    /\ turns = 0
    /\ cin \in SliceInputs
    /\ cout = [done |-> FALSE]
    /\ SolverIdle /\ AlgIdle

\* get_slice_sorted of the state and of the renamed state
GetSliceOfBoth ==
    /\ pc = "slice"
    /\ ~cout.done
    /\ cout' = [done  |-> TRUE,
                v     |-> get_slice_sorted(cin.s),
                other |-> get_slice_sorted(Renamed(cin.sigma, cin.s))]
    /\ UNCHANGED <<cube, hist, pc, turns, cin, solverVars, algVars>>

NextSlice == GetSliceOfBoth

SpecSlice == InitSlice /\ [][NextSlice]_vars

\* C22: get_slice_sorted returns the same value for two states that differ only
\* by a permutation of the four slice edges among their positions and of the
\* other edges among theirs.
C22_SliceIgnoresEdgeOrder ==
    (pc = "slice" /\ cout.done) => cout.v = cout.other

\* a state with slice edges outside the slice, whose slice edges and other
\* edges are both permuted
C22_Witness ==
    /\ pc = "slice"
    /\ cout.done
    /\ CoordPart("slice", cin.s) # {8, 9, 10, 11}
    /\ \E e \in 8..11 : cin.sigma[e] # e
    /\ \E e \in 0..7 : cin.sigma[e] # e
    /\ Renamed(cin.sigma, cin.s) # cin.s
    /\ CoordPart("slice", Renamed(cin.sigma, cin.s)) = CoordPart("slice", cin.s)
    /\ cout.v # get_slice_sorted(SOLVED)
    /\ cout.other = cout.v

----------------------------------------------------------------------------
(* solver.rs: the cubes phase2_search makes, started on a cube of G1 *)

\* largest p2_bound of the Phase-2 walk
MaxG1Turns == 2

\* G1 states far from SOLVED, put together from their three Phase-2 coordinates
G1Starts ==
    {c \in {multiply(multiply(set_corner_perm(i), set_ud_edges(j)), set_slice_perm(k)) :
                i \in {0, 21021, 40319}, j \in {0, 1, 30000}, k \in 0..(N_SLICE_PERM - 1)} :
        IsLegalCubie(c)}

\* the last move of the path phase1_search hands over: none, or a Phase-1 move
HandedPaths == {<<>>, <<"U">>, <<"D2">>, <<"R3">>}

InitG1 ==
    /\ cube \in G1Starts
    /\ hist \in HandedPaths
    /\ pc = "phase2"
    /\ turns = 0
    /\ SolverIdle /\ AlgIdle /\ CoordIdle

\* one round of `for &m in Turn::PHASE2_MOVES.iter()` that is not skipped:
\* next_cube = cube.multiply(&m.to_cubie()); path.push(m); the call with g + 1
Phase2Step(k) ==
    /\ pc = "phase2"
    /\ turns < MaxG1Turns
    /\ is_move_allowed(PHASE2_MOVES[k], last_of(hist))
    /\ cube' = multiply(cube, to_cubie(PHASE2_MOVES[k]))
    /\ hist' = Append(hist, PHASE2_MOVES[k])
    /\ turns' = turns + 1
    /\ UNCHANGED <<pc, solverVars, algVars, coordVars>>

NextG1 == \E k \in 1..Len(PHASE2_MOVES) : Phase2Step(k)

SpecG1 == InitG1 /\ [][NextG1]_vars

\* C23: a Phase-2 move applied to a G1 state (co all 0, eo all 0, the edges
\* 8..11 on the positions 8..11) gives a G1 state, so every cube phase2_search
\* makes from a G1 state is in G1.
C23_Phase2StaysInG1 ==
    /\ [](pc = "phase2" => InG1(cube))
    /\ [][(pc = "phase2" /\ InG1(cube)) => InG1(cube')]_vars

\* two Phase-2 moves deep, a quarter turn of U or D and a half turn of a side
\* face made, from a start whose corners, U/D edges and slice edges are all permuted
C23_Witness ==
    /\ pc = "phase2"
    /\ turns = 2
    /\ \E i \in 1..Len(hist) : hist[i] \in {"R2", "L2", "F2", "B2"}
    /\ hist[Len(hist)] \in {"U", "U3", "D", "D3"}
    /\ get_corner_perm(cube) # 0
    /\ get_ud_edges(cube) # 0
    /\ get_slice_perm(cube) # 0
    /\ InG1(cube)

----------------------------------------------------------------------------
(* pruning_table.rs, turn.rs: the move indices of the Phase-2 pruning tables *)
(* against the moves of the Phase-2 search                                   *)

\* the move a move index of the tables stands for: Turn::ALL[m_idx]
TurnOfIndex(m_idx) == ALL[m_idx + 1]

\* the moves that are half turns or turn the U or the D face
HalfOrUdTurns == {t \in Turns : t \in HalfTurns \/ face(t) \in {face("U"), face("D")}}

\* a Phase-2 table (U/D edges, slice permutation) was read with one of its indices
Phase2TableRead == cout.done /\ cin.kind = "table" /\ cin.coord \in {"udEdges", "slicePerm"}

\* C24: the move indices [0,1,2,9,10,11,4,13,7,16] of the Phase-2 pruning
\* tables denote, under the indexing of Turn::ALL, exactly the ten moves of
\* Turn::PHASE2_MOVES, position by position, and these are exactly the moves
\* that are half turns or turn the U or D face.
C24_Phase2IndexList ==
    /\ Len(phase2_moves) = 10
    /\ Len(PHASE2_MOVES) = 10
    /\ \A k \in 1..10 : phase2_moves[k] \in 0..17
    /\ \A k \in 1..10 : TurnOfIndex(phase2_moves[k]) = PHASE2_MOVES[k]
    /\ Cardinality({phase2_moves[k] : k \in 1..10}) = 10
    /\ {PHASE2_MOVES[k] : k \in 1..10} = HalfOrUdTurns
    /\ Phase2TableRead =>
           /\ TurnOfIndex(cin.m_idx) \in Phase2Turns
           /\ TurnOfIndex(cin.m_idx) \in HalfOrUdTurns
           /\ move_cubie(cin.m_idx) = to_cubie(TurnOfIndex(cin.m_idx))

\* the U/D-edge table read with index 4, the half turn R2 of the search
C24_Witness ==
    /\ Phase2TableRead
    /\ cin.coord = "udEdges"
    /\ cin.m_idx = 4
    /\ TurnOfIndex(cin.m_idx) = "R2"
    /\ MovedState = multiply(cin.s, to_cubie(PHASE2_MOVES[7]))
    /\ cout.table = get_ud_edges(MovedState)

----------------------------------------------------------------------------
(* cubie_cube.rs, turn.rs: move sequences of any kind against the sequences *)
(* is_move_allowed lets through                                             *)

\* longest sequence of arbitrary moves
MaxFreeTurns == 3

InitFree ==
    /\ cube = SOLVED
    /\ hist = <<>>
    /\ pc = "free"
    /\ turns = 0
    /\ SolverIdle /\ AlgIdle /\ CoordIdle

\* `cube = cube.multiply(&m.to_cubie())` for any of the 18 moves, the sequence kept
FreeTurn(m) ==
    /\ pc = "free"
    /\ turns < MaxFreeTurns
    /\ cube' = multiply(cube, to_cubie(m))
    /\ hist' = Append(hist, m)
    /\ turns' = turns + 1
    /\ UNCHANGED <<pc, solverVars, algVars, coordVars>>

NextFree == \E m \in Turns : FreeTurn(m)

SpecFree == InitFree /\ [][NextFree]_vars

RECURSIVE after_turns(_, _)
\* the cube after the moves ms, applied in order
after_turns(c, ms) ==
    IF ms = <<>> THEN c ELSE after_turns(multiply(c, to_cubie(Head(ms))), Tail(ms))

\* the number of quarter turns of a move
quarters(t) == IF t \in QuarterTurns THEN 1 ELSE IF t \in HalfTurns THEN 2 ELSE 3

\* the move of face f that makes q quarter turns
face_turn(f, q) == CHOOSE t \in Turns : face(t) = f /\ quarters(t) = q

\* two moves on opposite faces of one axis
OppositeFaces(a, b) == axis(a) = axis(b) /\ face(a) # face(b)

\* b must not follow a: same face, or opposite faces with the higher face first
OutOfOrder(a, b) == face(a) = face(b) \/ (OppositeFaces(a, b) /\ face(b) < face(a))

RECURSIVE Canonical(_)
\* a sequence rewritten until no move is out of order: two moves of one face
\* become one move or none, two moves of opposite faces change places
Canonical(h) ==
    IF \E i \in 1..(Len(h) - 1) : OutOfOrder(h[i], h[i + 1])
    THEN LET i == CHOOSE j \in 1..(Len(h) - 1) :
                     /\ OutOfOrder(h[j], h[j + 1])
                     /\ \A l \in 1..(j - 1) : ~OutOfOrder(h[l], h[l + 1])
             a == h[i]
             b == h[i + 1]
             pre == SubSeq(h, 1, i - 1)
             post == SubSeq(h, i + 2, Len(h))
             q == (quarters(a) + quarters(b)) % 4
         IN  IF face(a) = face(b)
             THEN Canonical(pre \o (IF q = 0 THEN <<>> ELSE <<face_turn(face(a), q)>>) \o post)
             ELSE Canonical(pre \o <<b, a>> \o post)
    ELSE h

\* is_move_allowed lets every move of the sequence follow the one before it
AllAllowed(h) ==
    \A i \in 1..Len(h) :
        is_move_allowed(h[i], IF i = 1 THEN None ELSE Some(h[i - 1]))

\* the sequence with its last two moves in the other order
LastTwoSwapped(h) ==
    SubSeq(h, 1, Len(h) - 2) \o <<h[Len(h)], h[Len(h) - 1]>>

\* C25: two moves on opposite faces of one axis commute as cubies, so the
\* order that is_move_allowed refuses loses no state: every cube reached by a
\* sequence of moves is reached by a sequence, not longer, that is_move_allowed
\* lets through.
C25_OppositeFacesCommute ==
    pc = "free" =>
        /\ (Len(hist) >= 2 /\ OppositeFaces(hist[Len(hist) - 1], hist[Len(hist)])) =>
               /\ after_turns(SOLVED, LastTwoSwapped(hist)) = cube
               /\ is_move_allowed(hist[Len(hist)], Some(hist[Len(hist) - 1]))
                      # is_move_allowed(hist[Len(hist) - 1], Some(hist[Len(hist)]))
        /\ LET c == Canonical(hist)
           IN  /\ AllAllowed(c)
               /\ Len(c) <= Len(hist)
               /\ after_turns(SOLVED, c) = cube

\* R, D, U2: D U2 is the refused order of an opposite pair, and the cube is
\* the one of the allowed sequence R, U2, D
C25_Witness ==
    /\ pc = "free"
    /\ hist = <<"R", "D", "U2">>
    /\ ~AllAllowed(hist)
    /\ Canonical(hist) = <<"R", "U2", "D">>
    /\ cube = after_turns(SOLVED, <<"R", "U2", "D">>)
    /\ cube # after_turns(SOLVED, <<"R", "D">>)

\* F and B' alone: the product of the two cubies in either order
C25_WitnessPair ==
    /\ pc = "free"
    /\ hist = <<"F", "B3">>
    /\ cube = multiply(to_cubie("F"), to_cubie("B3"))
    /\ cube = multiply(to_cubie("B3"), to_cubie("F"))

----------------------------------------------------------------------------
(* solver.rs: the path buffer at the returns of phase1_search and phase2_search *)

\* phase1_search returns in this step
Phase1Returns == pc = "run" /\ Top.fn = "p1" /\ Len(stack') < Len(stack)

\* phase2_search returns false in this step
Phase2ReturnsFalse ==
    /\ pc = "run" /\ Top.fn = "p2" /\ Len(stack') < Len(stack)
    /\ stack'[Len(stack')].fn = "p1" => ~ret'

\* phase2_search returns true in this step: every activation of phase2_search
\* on the stack returns true, one to the other
Phase2ReturnsTrue ==
    /\ pc = "run" /\ Top.fn = "p2" /\ Len(stack') < Len(stack)
    /\ stack'[Len(stack')].fn = "p1"
    /\ ret'

\* what the path holds beyond the first n moves
Beyond(p, n) == SubSeq(p, n + 1, Len(p))

\* path is the path q followed by other moves
Extends(p, q) == Len(p) >= Len(q) /\ SubSeq(p, 1, Len(q)) = q

\* C26: phase1_search returns with path as it was on entry; phase2_search
\* returning false leaves its path as it was on entry; phase2_search returning
\* true leaves its path extended by exactly p2_bound - g Phase-2 moves whose
\* product takes the entry cube to SOLVED.
C26_PathRestored ==
    /\ [][Phase1Returns => path = Top.entry]_vars
    /\ [][Phase2ReturnsFalse => p2_path = Top.entry]_vars
    /\ [][Phase2ReturnsTrue =>
            \A i \in 1..Len(stack) :
                stack[i].fn = "p2" =>
                    /\ Extends(p2_path, stack[i].entry)
                    /\ LET ext == Beyond(p2_path, Len(stack[i].entry))
                       IN  /\ Len(ext) = stack[i].bound - stack[i].g
                           /\ \A j \in 1..Len(ext) : ext[j] \in Phase2Turns
                           /\ after_turns(stack[i].cube, ext) = SOLVED]_vars

\* the same without the last line: what the returns do to the buffer, whatever
\* cube Phase 2 ends on
BufferRestored ==
    /\ [][Phase1Returns => path = Top.entry]_vars
    /\ [][Phase2ReturnsFalse => p2_path = Top.entry]_vars
    /\ [][Phase2ReturnsTrue =>
            \A i \in 1..Len(stack) :
                stack[i].fn = "p2" =>
                    /\ Extends(p2_path, stack[i].entry)
                    /\ Len(Beyond(p2_path, Len(stack[i].entry))) = stack[i].bound - stack[i].g]_vars

----------------------------------------------------------------------------
(* The core as a whole: the coordinates, the move tables and pruning cells  *)
(* of PruningTables::generate and the search of Solver::solve, for the      *)
(* ranges of their arithmetic                                               *)

InitCore == Init \/ InitCoord \/ InitTables \/ InitPruning

NextCore == Next \/ NextCoord \/ NextTables \/ NextPruning

SpecCore == InitCore /\ [][NextCore]_vars

\* the values of a u8 and of a u16
U8 == 0..255
U16 == 0..65535

\* num_states_1 / size1 of each call in generate
num_states_1(tab) ==
    CASE tab = "twist_slice"   -> N_TWIST
      [] tab = "flip_slice"    -> N_FLIP
      [] tab = "corner_slice"  -> N_PERM
      [] tab = "ud_edge_slice" -> N_PERM

\* `let size = num_states_1 * num_states_2`, the length of the NibbleArray
table_size(tab) == num_states_1(tab) * num_states_2(tab)

\* a move table holds 18 entries per row, whatever the coordinate
AllMoveIndices == 0..17

\* the coordinates of a cube are below their ranges
CoordsInRange(c) ==
    \A k \in Coordinates : coord_get(k, c) \in 0..(CoordRange(k) - 1)

\* C27: every coordinate value and every move-table entry is below the range
\* of its coordinate (so it fits in 16 bits), every combined pruning index
\* coord1 * range2 + coord2 is below the size of its table, and in the solver
\* g + h1, g + h2, g + p2_bound and best_length - g - 1 stay within a u8.
C27_NoWrapNoOutOfRange ==
    /\ [](\A k \in Coordinates : CoordRange(k) - 1 \in U16)
    /\ []((pc = "coord" /\ cout.done) =>
            IF cin.kind = "index"
            THEN /\ coord_set(cin.coord, cin.i) # PANIC
                 /\ cout.v \in 0..(CoordRange(cin.coord) - 1)
            ELSE /\ coord_get(cin.coord, cin.s) \in 0..(CoordRange(cin.coord) - 1)
                 /\ cout.v # PANIC)
    /\ []((pc = "tables" /\ cout.done) =>
            LET k == cin.coord
                r == CoordRange(k)
                v == coord_get(k, cin.s)
            IN  /\ v \in 0..(r - 1)
                /\ cout.table \in 0..(r - 1)
                /\ cout.direct \in 0..(r - 1)
                /\ CoordsInRange(cin.s)
                /\ CoordsInRange(MovedState)
                /\ k \in {"udEdges", "slicePerm"} =>
                       \A m \in AllMoveIndices : move_table(k, v, m) \in 0..(r - 1))
    /\ []((pc = "pruning" /\ cout.done) =>
            /\ cin.index \in 0..(table_size(cin.tab) - 1)
            /\ start_combined(cin.tab) \in 0..(table_size(cin.tab) - 1)
            /\ cout.entry.lo \in 0..15
            /\ \A m \in table_moves(cin.tab) :
                   next_combined(cin.tab, cin.index, m) \in 0..(table_size(cin.tab) - 1))
    /\ [](AtEntryOf("p1") =>
            /\ CoordsInRange(Top.cube)
            /\ get_twist(Top.cube) * 495 + get_slice_sorted(Top.cube)
                   \in 0..(table_size("twist_slice") - 1)
            /\ get_flip(Top.cube) * 495 + get_slice_sorted(Top.cube)
                   \in 0..(table_size("flip_slice") - 1)
            /\ h1_of(Top.cube).lo \in 0..15
            /\ Top.g + 15 \in U8
            /\ best_length \in U8)
    /\ [](AtEntryOf("p2") =>
            /\ CoordsInRange(Top.cube)
            /\ get_corner_perm(Top.cube) * 24 + get_slice_perm(Top.cube)
                   \in 0..(table_size("corner_slice") - 1)
            /\ get_ud_edges(Top.cube) * 24 + get_slice_perm(Top.cube)
                   \in 0..(table_size("ud_edge_slice") - 1)
            /\ h2_of(Top.cube).lo \in 0..15
            /\ Top.g + 15 \in U8)
    /\ [][(pc = "run" /\ Top.fn = "p1" /\ Top.st = "enter" /\ pc' = "run"
              /\ Len(stack') = Len(stack) /\ stack'[Len(stack')].st = "handoff") =>
            /\ best_length - Top.g - 1 \in U8
            /\ stack'[Len(stack')].max_p2 = best_length - Top.g - 1]_vars
    /\ []((pc = "run" /\ stack # <<>> /\ Top.fn = "p1" /\ Top.st \in {"handoff", "p2wait", "p2done"}) =>
            /\ Top.max_p2 \in U8
            /\ Top.st # "handoff" => (Top.p2b <= Top.max_p2 /\ Top.g + Top.p2b \in U8))

\* Phase 2 is about to be run under the largest bound, 22, on a scrambled cube
C27_Witness ==
    /\ pc = "run"
    /\ hist # <<>>
    /\ Top.fn = "p1"
    /\ Top.st = "handoff"
    /\ best_length = max_length + 1
    /\ Top.max_p2 = max_length
    /\ Top.g = 0

\* a U/D-edge coordinate in the upper half of its range, and its move-table entry
C27_WitnessTable ==
    /\ pc = "tables"
    /\ cout.done
    /\ cin.coord = "udEdges"
    /\ coord_get("udEdges", cin.s) > 20160
    /\ cout.table > 20160
    /\ cout.table < N_PERM

\* a cell of the corner-slice pruning table and the cells its moves lead to
C27_WitnessCell ==
    /\ pc = "pruning"
    /\ cout.done
    /\ cin.tab = "corner_slice"
    /\ cin.index > 0
    /\ \E m \in table_moves(cin.tab) : next_combined(cin.tab, cin.index, m) > 24 * 20160

====
